---- MODULE Spec2Model ----
(***************************************************************************)
(* Model of pyrsa's volume searchlight pipeline                            *)
(* (src/pyrsa/util/searchlight.py):                                        *)
(*   - _get_searchlight_neighbors : the neighborhood locator               *)
(*   - get_volume_searchlight     : the searchlight generator              *)
(*   - get_searchlight_RDMs       : the chunked RDM calculator             *)
(* evaluate_models_searchlight (lines 144-162) only hands its tasks to     *)
(* joblib.Parallel and returns the list it gets back; it keeps no state    *)
(* and decides no ordering itself, so it has no part in this model.        *)
(*                                                                         *)
(* Numbers.  Coordinates and indices are integers.  radius and threshold   *)
(* are floats in the program; here they are exact rationals <<num, den>>   *)
(* with den > 0 and every comparison is done by cross-multiplication.      *)
(* For the small dyadic values used this agrees with IEEE double           *)
(* arithmetic: sqrt is correctly rounded and monotone, and two different   *)
(* small rationals never round to the same double.                         *)
(***************************************************************************)
EXTENDS Integers, Sequences, FiniteSets, TLC

VARIABLES
    \* ---- get_volume_searchlight
    mask_shape,        \* mask.shape, <<nx, ny, nz>>
    mask,              \* the mask, a function from coordinates to values
    radius,            \* radius, rational <<num, den>>
    threshold,         \* threshold, rational <<num, den>>
    sl_pc,             \* "idle" | "scan" | "returned" | "ValueError"
    k,                 \* 1-based position of the next candidate in centers
    neighbors,         \* neighbors of the candidate examined last
    good_centers,      \* list of retained centers (3D coordinates)
    good_neighbors,    \* list of the retained centers' neighbor lists
    \* ---- output of get_volume_searchlight, input of get_searchlight_RDMs
    centers_raveled,   \* sequence of flattened center indices
    neighbors_raveled, \* sequence of sequences of flattened neighbor indices
    \* ---- get_searchlight_RDMs
    events,            \* condition label per observation
    rdm_pc,            \* "idle" | "start" | "loop" | "returned"
    chunked_center,    \* list of chunks, each a list of 0-based center indices
    chunk_i,           \* 1-based position of the next chunk
    center_data,       \* the list of datasets handed to calc_rdm last
    RDM,               \* accumulator: row (0-based) -> dissimilarity row
    writes,            \* row (0-based) -> the chunks (by position) that assigned it
    SL_rdms            \* the returned RDMs object

sl_vars == <<mask_shape, mask, radius, threshold, sl_pc, k, neighbors,
             good_centers, good_neighbors>>
io_vars == <<centers_raveled, neighbors_raveled>>
rdm_vars == <<events, rdm_pc, chunked_center, chunk_i, center_data, RDM,
              writes, SL_rdms>>
vars == <<sl_vars, io_vars, rdm_vars>>

----------------------------------------------------------------------------
(* Bounds of the model *)

MaxDim == 3
MaxVox == 4
MaxVal == 2

----------------------------------------------------------------------------
(* Small helpers *)

Abs(n) == IF n < 0 THEN 0 - n ELSE n

Range(s) == {s[i] : i \in 1..Len(s)}

\* a < b, a >= b for rationals <<num, den>> with den > 0
RatLess(a, b) == a[1] * b[2] < b[1] * a[2]
RatGeq(a, b) == a[1] * b[2] >= b[1] * a[2]

RECURSIVE SumSeq(_)
SumSeq(s) == IF s = <<>> THEN 0 ELSE Head(s) + SumSeq(Tail(s))

----------------------------------------------------------------------------
(* _get_searchlight_neighbors *)

\* np.arange(n)
arange(n) == [i \in 1..n |-> i - 1]

\* x[abs(x-cx) < radius]
AxisPrefilter(x, c, rad) ==
    SelectSeq(x, LAMBDA v : RatLess(<<Abs(v - c), 1>>, rad))

\* np.meshgrid(x, y, z) with the default indexing 'xy' gives arrays of shape
\* (len(y), len(x), len(z)); raveled in C order and stacked, row p of data is
\* (x[i], y[j], z[l]) with j the slowest and l the fastest index.
meshgrid_rows(x, y, z) ==
    [p \in 1..(Len(y) * Len(x) * Len(z)) |->
        LET q == p - 1
            l == q % Len(z)
            i == (q \div Len(z)) % Len(x)
            j == q \div (Len(z) * Len(x))
        IN  <<x[i + 1], y[j + 1], z[l + 1]>>]

\* squared Euclidean distance of cdist(data, center, 'euclidean')
SqDist(p, c) ==
    (p[1] - c[1]) * (p[1] - c[1]) + (p[2] - c[2]) * (p[2] - c[2])
        + (p[3] - c[3]) * (p[3] - c[3])

\* distance < radius: a distance is >= 0, so nothing is below a radius <= 0;
\* for radius > 0 both sides are squared.
DistLess(p, c, rad) ==
    /\ rad[1] > 0
    /\ SqDist(p, c) * rad[2] * rad[2] < rad[1] * rad[1]

\* A variant of get_searchlight_neighbors that keeps the whole grid of
\* prefiltered points, without the distance test.
box_neighbors(shape, center, rad) ==
    meshgrid_rows(AxisPrefilter(arange(shape[1]), center[1], rad),
                  AxisPrefilter(arange(shape[2]), center[2], rad),
                  AxisPrefilter(arange(shape[3]), center[3], rad))

\* The program returns a tuple of three coordinate lists (xs, ys, zs); the
\* model keeps the same points, in the same order, as a list of triples.
get_searchlight_neighbors(shape, center, rad) ==
    LET x == AxisPrefilter(arange(shape[1]), center[1], rad)
        y == AxisPrefilter(arange(shape[2]), center[2], rad)
        z == AxisPrefilter(arange(shape[3]), center[3], rad)
        data == meshgrid_rows(x, y, z)
    IN  SelectSeq(data, LAMBDA p : DistLess(p, center, rad))

----------------------------------------------------------------------------
(* get_volume_searchlight *)

Coords(shape) ==
    (0..(shape[1] - 1)) \X (0..(shape[2] - 1)) \X (0..(shape[3] - 1))

\* np.ravel_multi_index of one coordinate, C order
ravel_multi_index(p, shape) == (p[1] * shape[2] + p[2]) * shape[3] + p[3]

\* the coordinate with flattened index f
unravel_index(f, shape) ==
    <<f \div (shape[2] * shape[3]), (f \div shape[3]) % shape[2], f % shape[3]>>

\* list(zip(*np.nonzero(mask))): the nonzero coordinates in C (row-major) order
nonzero(m, shape) ==
    LET all == [f \in 1..(shape[1] * shape[2] * shape[3]) |->
                    unravel_index(f - 1, shape)]
    IN  SelectSeq(all, LAMBDA p : m[p] # 0)

centers == nonzero(mask, mask_shape)

\* mask[neighbors].mean() >= threshold.  The mean of an empty selection is
\* nan, and nan >= threshold is False.
MeanGreater(m, nb, thr) ==
    /\ Len(nb) > 0
    /\ RatLess(thr, <<SumSeq([i \in 1..Len(nb) |-> m[nb[i]]]), Len(nb)>>)

MeanGeq(m, nb, thr) ==
    /\ Len(nb) > 0
    /\ RatGeq(<<SumSeq([i \in 1..Len(nb) |-> m[nb[i]]]), Len(nb)>>, thr)

\* one iteration of the loop over centers (lines 73-77)
ScanCenter ==
    /\ sl_pc = "scan"
    /\ k <= Len(centers)
    /\ LET center == centers[k]
           nb == get_searchlight_neighbors(mask_shape, center, radius)
       IN  /\ neighbors' = nb
           /\ IF MeanGeq(mask, nb, threshold)
              THEN /\ good_centers' = Append(good_centers, center)
                   /\ good_neighbors' = Append(good_neighbors, nb)
              ELSE UNCHANGED <<good_centers, good_neighbors>>
    /\ k' = k + 1
    /\ UNCHANGED <<mask_shape, mask, radius, threshold, sl_pc>>
    /\ UNCHANGED <<io_vars, rdm_vars>>

RavelCentersReversed(gc, shape) ==
    [i \in 1..Len(gc) |-> ravel_multi_index(<<gc[i][3], gc[i][2], gc[i][1]>>, shape)]

\* np.ravel_multi_index(good_centers.T, mask.shape)
RavelCenters(gc, shape) ==
    [i \in 1..Len(gc) |-> ravel_multi_index(gc[i], shape)]

\* [np.ravel_multi_index(n, mask.shape) for n in good_neighbors]
RavelNeighbors(gn, shape) ==
    [i \in 1..Len(gn) |->
        [j \in 1..Len(gn[i]) |-> ravel_multi_index(gn[i][j], shape)]]

\* lines 79-87.  With no retained center good_centers is np.array([]), of
\* shape (0,): its transpose is a sequence of length 0, not 3, and
\* np.ravel_multi_index raises ValueError.
Ravel ==
    /\ sl_pc = "scan"
    /\ k > Len(centers)
    /\ IF Len(good_centers) = 0
       THEN /\ sl_pc' = "ValueError"
            /\ UNCHANGED io_vars
       ELSE /\ sl_pc' = "returned"
            /\ centers_raveled' = RavelCenters(good_centers, mask_shape)
            /\ neighbors_raveled' = RavelNeighbors(good_neighbors, mask_shape)
    /\ UNCHANGED <<mask_shape, mask, radius, threshold, k, neighbors,
                   good_centers, good_neighbors>>
    /\ UNCHANGED rdm_vars

----------------------------------------------------------------------------
(* IEEE double arithmetic, as far as np.linspace uses it.                  *)
(* A positive double is [a, b, c, e]: its 53-bit significand is            *)
(* M = a * 2^36 + b * 2^18 + c with 2^16 <= a < 2^17 and 0 <= b, c < 2^18  *)
(* (so 2^52 <= M < 2^53), and its value is M * 2^e.  Zero has a = 0.       *)
(* The significand is held in three parts because the model's integers     *)
(* are 32 bits wide.  All operations round to nearest, ties to even.       *)

Limb == 2 ^ 18

TopLo == 2 ^ 16

FloatZero == [a |-> 0, b |-> 0, c |-> 0, e |-> 0]

\* Round the exact value (a, b, c) * 2^e, followed by the guard bit and a
\* nonzero remainder iff sticky, to the nearest double.
RoundNearestEven(a, b, c, e, guard, sticky) ==
    IF ~(guard = 1 /\ (sticky \/ c % 2 = 1))
    THEN [a |-> a, b |-> b, c |-> c, e |-> e]
    ELSE IF c + 1 < Limb THEN [a |-> a, b |-> b, c |-> c + 1, e |-> e]
    ELSE IF b + 1 < Limb THEN [a |-> a, b |-> b + 1, c |-> 0, e |-> e]
    ELSE IF a + 1 < 2 * TopLo THEN [a |-> a + 1, b |-> 0, c |-> 0, e |-> e]
    ELSE [a |-> TopLo, b |-> 0, c |-> 0, e |-> e + 1]

\* the double n / d, for integers 0 <= n < 2^16 and 0 < d < 2^7 (both are
\* doubles exactly)
FloatDiv(n, d) ==
    IF n = 0 THEN FloatZero
    ELSE LET u == CHOOSE s \in 0..23 :
                    /\ n * 2 ^ s < 2 * TopLo * d
                    /\ TopLo <= (n * 2 ^ s) \div d
             a == (n * 2 ^ u) \div d
             r1 == (n * 2 ^ u) % d
             b == (r1 * Limb) \div d
             r2 == (r1 * Limb) % d
             c == (r2 * Limb) \div d
             r3 == (r2 * Limb) % d
             guard == (2 * r3) \div d
             r4 == (2 * r3) % d
         IN  RoundNearestEven(a, b, c, 0 - (u + 36), guard, r4 # 0)

\* the double i * f, for an integer 0 <= i < 2^7 (a double exactly) and a
\* double f
FloatMulInt(i, f) ==
    IF i = 0 \/ f.a = 0 THEN FloatZero
    ELSE LET t0 == f.c * i
             t1 == f.b * i + t0 \div Limb
             t2 == f.a * i + t1 \div Limb
             pb == t1 % Limb
             pc == t0 % Limb
             \* the exact product is t2 * 2^36 + pb * 2^18 + pc; drop its
             \* sh lowest bits to keep 53
             sh == CHOOSE s \in 0..7 :
                        TopLo <= t2 \div 2 ^ s /\ t2 \div 2 ^ s < 2 * TopLo
             a == t2 \div 2 ^ sh
             b == ((t2 % 2 ^ sh) * Limb + pb) \div 2 ^ sh
             c == ((pb % 2 ^ sh) * Limb + pc) \div 2 ^ sh
             dropped == pc % 2 ^ sh
             guard == IF sh = 0 THEN 0 ELSE dropped \div 2 ^ (sh - 1)
             sticky == sh > 0 /\ dropped % 2 ^ (sh - 1) # 0
         IN  RoundNearestEven(a, b, c, f.e + sh, guard, sticky)

\* floor of a double 0 <= f < 2^17
FloatFloor(f) ==
    IF f.a = 0 \/ 0 - f.e >= 53 THEN 0
    ELSE f.a \div 2 ^ (0 - f.e - 36)

----------------------------------------------------------------------------
(* get_searchlight_RDMs *)

\* the number of samples of np.linspace(0, n_centers, 100, dtype=int)
num == 100

\* np.linspace(0, stop, num, dtype=int): step = stop / (num - 1) in double
\* arithmetic, sample i is i * step in double arithmetic, the last sample is
\* stop itself, and every sample is floored to an integer.
linspace_int(stop) ==
    LET step == FloatDiv(stop, num - 1)
    IN  [j \in 1..num |->
            IF j = num THEN stop ELSE FloatFloor(FloatMulInt(j - 1, step))]

\* ary[st:end] of a Python list or numpy array (0 <= st), as a sequence
Slice(ary, st, end) ==
    LET hi == IF end > Len(ary) THEN Len(ary) ELSE end
    IN  IF hi <= st THEN <<>> ELSE SubSeq(ary, st + 1, hi)

\* A variant of split whose sub-arrays include the element at the end
\* index as well.
split_inclusive(ary, indices) ==
    LET div_points == <<0>> \o indices \o <<Len(ary)>>
    IN  [c \in 1..(Len(indices) + 1) |->
            Slice(ary, div_points[c], div_points[c + 1] + 1)]

\* np.split(ary, indices): the sub-arrays ary[0:i1], ary[i1:i2], ..., ary[iN:]
split(ary, indices) ==
    LET div_points == <<0>> \o indices \o <<Len(ary)>>
    IN  [c \in 1..(Len(indices) + 1) |->
            Slice(ary, div_points[c], div_points[c + 1])]

\* largest number of centers handed to get_searchlight_RDMs
MaxCenters == 110

\* linspace_int for every n_centers of the model, computed once
linspace_table == [n \in 0..MaxCenters |-> linspace_int(n)]

\* lines 111-113: np.split(np.arange(n_centers),
\*                         np.linspace(0, n_centers, 100, dtype=int)[1:-1])
chunk_centers(n_centers) ==
    LET pts == linspace_table[n_centers]
    IN  split(arange(n_centers), SubSeq(pts, 2, Len(pts) - 1))

\* A variant of n_conditions that counts the observations.
n_observations(ev) == Len(ev)

\* line 119: len(np.unique(events))
n_conditions(ev) == Cardinality(Range(ev))

\* line 120: the number of columns of the accumulator
n_columns(ev) == (n_conditions(ev) * (n_conditions(ev) - 1)) \div 2

\* Dataset(data_raveled[:, nb], descriptors={'center': c},
\*         obs_descriptors={'events': events},
\*         channel_descriptors={'voxels': nb}).
\* The observation matrix is not modelled by value: the measurements of a
\* dataset are identified by the columns selected from it.
Dataset(columns, c, ev, nb) ==
    [measurements |-> columns, center |-> c, events |-> ev, voxels |-> nb]

\* C(n, 2) by Pascal's rule
RECURSIVE Pairs(_)
Pairs(n) == IF n <= 1 THEN 0 ELSE Pairs(n - 1) + (n - 1)

\* calc_rdm(center_data, method, descriptor='events').dissimilarities: one
\* row per dataset, of C(n_conditions, 2) dissimilarities; an entry records
\* the measurements it was computed from and its position among the
\* condition pairs.
calc_rdm(datasets) ==
    [d \in 1..Len(datasets) |->
        [p \in 1..Pairs(Cardinality(Range(datasets[d].events))) |->
            [from |-> datasets[d].measurements, pair |-> p]]]

\* RDMs(RDM, rdm_descriptors={'voxel_index': centers_raveled},
\*      dissimilarity_measure=method)
RDMs(dissimilarities, voxel_index) ==
    [dissimilarities |-> dissimilarities,
     rdm_descriptors |-> [voxel_index |-> voxel_index]]

\* lines 110-120: the chunks and the zero accumulator.  Rows are 0-based.
SplitCenters ==
    /\ rdm_pc = "start"
    /\ LET n_centers == Len(centers_raveled)
       IN  /\ chunked_center' = chunk_centers(n_centers)
           /\ RDM' = [r \in 0..(n_centers - 1) |->
                        [p \in 1..n_columns(events) |-> 0]]
           /\ writes' = [r \in 0..(n_centers - 1) |-> <<>>]
    /\ chunk_i' = 1
    /\ rdm_pc' = "loop"
    /\ UNCHANGED <<events, center_data, SL_rdms>>
    /\ UNCHANGED <<sl_vars, io_vars>>

\* lines 121-134: one chunk.  RDM[chunk, :] = ... needs rows of the
\* accumulator's width; numpy raises ValueError otherwise.
ProcessChunk ==
    /\ rdm_pc = "loop"
    /\ chunk_i <= Len(chunked_center)
    /\ LET chunk == chunked_center[chunk_i]
           data == [j \in 1..Len(chunk) |->
                        LET c == chunk[j]
                            nb == neighbors_raveled[c + 1]
                        IN  Dataset(nb, c, events, nb)]
           RDM_corr == calc_rdm(data)
           pos(r) == CHOOSE j \in 1..Len(chunk) : chunk[j] = r
       IN  /\ center_data' = data
           /\ IF \A j \in 1..Len(chunk) : Len(RDM_corr[j]) = n_columns(events)
              THEN /\ RDM' = [r \in DOMAIN RDM |->
                                IF r \in Range(chunk) THEN RDM_corr[pos(r)]
                                ELSE RDM[r]]
                   /\ writes' = [r \in DOMAIN writes |->
                                    IF r \in Range(chunk)
                                    THEN Append(writes[r], chunk_i)
                                    ELSE writes[r]]
                   /\ chunk_i' = chunk_i + 1
                   /\ rdm_pc' = "loop"
              ELSE /\ rdm_pc' = "ValueError"
                   /\ UNCHANGED <<RDM, writes, chunk_i>>
    /\ UNCHANGED <<events, chunked_center, SL_rdms>>
    /\ UNCHANGED <<sl_vars, io_vars>>

\* lines 138-142
BuildRDMs ==
    /\ rdm_pc = "loop"
    /\ chunk_i > Len(chunked_center)
    /\ SL_rdms' = RDMs(RDM, centers_raveled)
    /\ rdm_pc' = "returned"
    /\ UNCHANGED <<events, chunked_center, chunk_i, center_data, RDM, writes>>
    /\ UNCHANGED <<sl_vars, io_vars>>

----------------------------------------------------------------------------
(* Inputs and initial states *)

Shapes ==
    {s \in (1..MaxDim) \X (1..MaxDim) \X (1..MaxDim) :
        s[1] * s[2] * s[3] <= MaxVox}

\* -1, 0, 1, 5/4, 3/2, 2
Radii == {<<0 - 1, 1>>, <<0, 1>>, <<1, 1>>, <<5, 4>>, <<3, 2>>, <<2, 1>>}

\* -1/2, 0, 1/2, 2/3, 1, 3/2
Thresholds == {<<0 - 1, 2>>, <<0, 1>>, <<1, 2>>, <<2, 3>>, <<1, 1>>, <<3, 2>>}

SLIdle ==
    /\ mask_shape = <<1, 1, 1>>
    /\ mask = [p \in Coords(<<1, 1, 1>>) |-> 0]
    /\ radius = <<1, 1>>
    /\ threshold = <<1, 1>>
    /\ sl_pc = "idle"
    /\ k = 1
    /\ neighbors = <<>>
    /\ good_centers = <<>>
    /\ good_neighbors = <<>>

RDMIdle ==
    /\ events = <<>>
    /\ rdm_pc = "idle"
    /\ chunked_center = <<>>
    /\ chunk_i = 1
    /\ center_data = <<>>
    /\ RDM = <<>>
    /\ writes = <<>>
    /\ SL_rdms = <<>>

\* a call get_volume_searchlight(mask, radius, threshold), after lines 66-71
Init ==
    /\ mask_shape \in Shapes
    /\ mask \in [Coords(mask_shape) -> 0..MaxVal]
    /\ radius \in Radii
    /\ threshold \in Thresholds
    /\ sl_pc = "scan"
    /\ k = 1
    /\ neighbors = <<>>
    /\ good_centers = <<>>
    /\ good_neighbors = <<>>
    /\ centers_raveled = <<>>
    /\ neighbors_raveled = <<>>
    /\ RDMIdle

Next == ScanCenter \/ Ravel

Spec == Init /\ [][Next]_vars

\* the scenario of a 5x5x5 all-ones mask with radius 1.5, at threshold 1.0
\* and at threshold 0.5
CubeShape == <<5, 5, 5>>

InitCube ==
    /\ mask_shape = CubeShape
    /\ mask = [p \in Coords(CubeShape) |-> 1]
    /\ radius = <<3, 2>>
    /\ threshold \in {<<1, 1>>, <<1, 2>>}
    /\ sl_pc = "scan"
    /\ k = 1
    /\ neighbors = <<>>
    /\ good_centers = <<>>
    /\ good_neighbors = <<>>
    /\ centers_raveled = <<>>
    /\ neighbors_raveled = <<>>
    /\ RDMIdle

SpecCube == InitCube /\ [][Next]_vars

\* Condition label vectors: 1, 2, 3 and 4 conditions, with repetitions
EventVectors ==
    {<<7>>, <<1, 1>>, <<2, 1, 2>>, <<3, 1, 2>>, <<1, 2, 3, 4, 1, 2, 3, 4>>}

\* A call get_searchlight_RDMs(data_raveled, centers_raveled,
\* neighbors_raveled, events): n centers on every other voxel of a line of
\* voxels, each with the neighbors <<c - 1, c, c + 1>>.
InitRDM ==
    /\ SLIdle
    /\ \E n \in 0..MaxCenters :
        /\ centers_raveled = [i \in 1..n |-> 2 * i - 1]
        /\ neighbors_raveled = [i \in 1..n |-> <<2 * i - 2, 2 * i - 1, 2 * i>>]
    /\ events \in EventVectors
    /\ rdm_pc = "start"
    /\ chunked_center = <<>>
    /\ chunk_i = 1
    /\ center_data = <<>>
    /\ RDM = <<>>
    /\ writes = <<>>
    /\ SL_rdms = <<>>

NextRDM == SplitCenters \/ ProcessChunk \/ BuildRDMs

SpecRDM == InitRDM /\ [][NextRDM]_vars

----------------------------------------------------------------------------
(* Properties of the neighborhood locator and the searchlight generator *)

RadiusPositive == radius[1] > 0

ThresholdInRange == RatGeq(threshold, <<0, 1>>) /\ RatGeq(<<1, 1>>, threshold)

\* the in-bounds coordinates at Euclidean distance < rad of c (rad > 0)
Ball(shape, c, rad) ==
    {p \in Coords(shape) :
        ((p[1] - c[1]) * (p[1] - c[1]) + (p[2] - c[2]) * (p[2] - c[2])
            + (p[3] - c[3]) * (p[3] - c[3])) * rad[2] * rad[2]
        < rad[1] * rad[1]}

\* (number of neighborhood voxels with nonzero mask value) /
\* (number of neighborhood voxels), as a rational
CoverageRatio(m, shape, c, rad) ==
    <<Cardinality({p \in Ball(shape, c, rad) : m[p] # 0}),
      Cardinality(Ball(shape, c, rad))>>

BinaryMask == \A p \in Coords(mask_shape) : mask[p] \in {0, 1}

Examined == {centers[i] : i \in 1..(k - 1)}

\* C1: for every mask shape, in-bounds center and radius > 0 the neighbors
\* returned for the center are exactly the in-bounds coordinates at Euclidean
\* distance < radius: none is at distance >= radius or out of bounds
\* (soundness), none at distance < radius is missing (completeness), and none
\* is listed twice.
C1_NeighborsExact ==
    (sl_pc # "idle" /\ k > 1 /\ RadiusPositive) =>
        LET c == centers[k - 1]
        IN  /\ \A p \in Range(neighbors) :
                /\ p \in Coords(mask_shape)
                /\ ~(SqDist(p, c) * radius[2] * radius[2]
                        >= radius[1] * radius[1])
            /\ \A p \in Ball(mask_shape, c, radius) : p \in Range(neighbors)
            /\ Cardinality(Range(neighbors)) = Len(neighbors)

\* C1 witness: a center whose bounding box holds a point outside the sphere
\* (radius 5/4 in a 2x2x1 volume: the diagonal point is at distance sqrt 2).
C1_Witness ==
    /\ sl_pc = "scan" /\ k > 1
    /\ mask_shape = <<2, 2, 1>>
    /\ radius = <<5, 4>>
    /\ Len(neighbors) = 3

\* C2 as stated: for every mask (boolean or numeric) and threshold in [0,1],
\* a candidate center is retained if and only if its coverage ratio (nonzero
\* neighborhood voxels / neighborhood voxels) is >= threshold.
C2_Original ==
    (sl_pc # "idle" /\ RadiusPositive /\ ThresholdInRange) =>
        \A c \in Examined :
            (c \in Range(good_centers))
                <=> RatGeq(CoverageRatio(mask, mask_shape, c, radius), threshold)

\* C2 amended: the same, for masks whose values are all 0 or 1.
C2_BinaryMaskCoverage ==
    (sl_pc # "idle" /\ RadiusPositive /\ ThresholdInRange /\ BinaryMask) =>
        \A c \in Examined :
            (c \in Range(good_centers))
                <=> RatGeq(CoverageRatio(mask, mask_shape, c, radius), threshold)

\* C2 witness: a 0/1 mask scanned at threshold 1/2 with a retained center
\* whose ratio equals the threshold (1 of 2 voxels).
C2_Witness ==
    /\ sl_pc = "scan" /\ RadiusPositive /\ BinaryMask
    /\ threshold = <<1, 2>>
    /\ \E c \in Range(good_centers) :
            CoverageRatio(mask, mask_shape, c, radius) = <<1, 2>>

\* C5 as stated: on the 5x5x5 all-ones mask with radius 1.5, threshold 1.0
\* keeps every interior voxel and rejects every corner voxel, and threshold
\* 0.5 keeps the corner voxels.
CubeCorners == {p \in Coords(CubeShape) : \A a \in 1..3 : p[a] \in {0, 4}}

CubeInterior == {p \in Coords(CubeShape) : \A a \in 1..3 : p[a] \in 1..3}

ScanOver == sl_pc \in {"returned", "ValueError"}

C5_Original ==
    (ScanOver /\ mask_shape = CubeShape) =>
        /\ threshold = <<1, 1>> =>
                /\ CubeInterior \subseteq Range(good_centers)
                /\ CubeCorners \cap Range(good_centers) = {}
        /\ threshold = <<1, 2>> => CubeCorners \subseteq Range(good_centers)

\* C5 amended: on the 5x5x5 all-ones mask with radius 1.5 every interior
\* voxel and every corner voxel is retained at threshold 1.0 as well as at
\* threshold 0.5, although a corner's neighborhood (7 voxels) is smaller than
\* an interior voxel's full sphere (19 voxels).
C5_CubeAllRetained ==
    (ScanOver /\ mask_shape = CubeShape) =>
        /\ sl_pc = "returned"
        /\ CubeInterior \subseteq Range(good_centers)
        /\ CubeCorners \subseteq Range(good_centers)
        /\ \A i \in 1..Len(good_centers) :
                /\ good_centers[i] \in CubeCorners
                        => Len(good_neighbors[i]) = 7
                /\ good_centers[i] \in CubeInterior
                        => Len(good_neighbors[i]) = 19

\* C5 witness: the run at threshold 1.0 has returned with corner (0,0,0)
\* among the centers.
C5_Witness ==
    /\ sl_pc = "returned"
    /\ mask_shape = CubeShape
    /\ threshold = <<1, 1>>
    /\ Len(centers_raveled) = 125
    /\ centers_raveled[1] = 0
    /\ Len(neighbors_raveled[1]) = 7

\* C6 as stated (generator part): when no center is retained the generator
\* returns, without error, an empty center collection and an empty
\* neighbor-set collection.
C6_EmptyReturns ==
    (ScanOver /\ good_centers = <<>>) =>
        /\ sl_pc = "returned"
        /\ centers_raveled = <<>>
        /\ neighbors_raveled = <<>>

\* C7 as stated: with threshold outside [0,1] or radius <= 0 the generator
\* fails at entry: it examines no candidate center and returns nothing.
C7_FailFast ==
    (sl_pc # "idle" /\ (~ThresholdInRange \/ ~RadiusPositive)) =>
        /\ k = 1
        /\ sl_pc # "returned"

\* C9: the generator returns the retained centers in C-order scan order:
\* centers_raveled is strictly increasing, entry i is the flattened index
\* (x*ny + y)*nz + z of the i-th retained center, a nonzero mask coordinate,
\* and neighbors_raveled[i] is exactly the set of flattened indices of that
\* center's neighborhood, each within 0..nx*ny*nz-1.
C9_RaveledOrder ==
    (sl_pc = "returned" /\ RadiusPositive) =>
        LET nx == mask_shape[1]
            ny == mask_shape[2]
            nz == mask_shape[3]
            flat(p) == (p[1] * ny + p[2]) * nz + p[3]
            n == Len(centers_raveled)
        IN  /\ n = Len(good_centers)
            /\ n = Len(neighbors_raveled)
            /\ \A i \in 1..n : \A j \in 1..n :
                    i < j => centers_raveled[i] < centers_raveled[j]
            /\ \A i \in 1..n :
                    LET c == good_centers[i]
                    IN  /\ c \in Coords(mask_shape)
                        /\ mask[c] # 0
                        /\ centers_raveled[i] = flat(c)
                        /\ Range(neighbors_raveled[i])
                                = {flat(q) : q \in Ball(mask_shape, c, radius)}
                        /\ Range(neighbors_raveled[i]) \subseteq 0..(nx * ny * nz - 1)

\* C9 witness: a run that returned two or more centers, rejected another
\* candidate, and has a neighborhood of more than one voxel.
C9_Witness ==
    /\ sl_pc = "returned"
    /\ Len(centers_raveled) >= 2
    /\ Len(centers_raveled) < Len(centers)
    /\ \E i \in 1..Len(neighbors_raveled) : Len(neighbors_raveled[i]) >= 2
    /\ mask_shape[1] > 1

----------------------------------------------------------------------------
(* Properties of the RDM calculator *)

n_centers == Len(centers_raveled)

ChunkOf(r) == {c \in 1..Len(chunked_center) : r \in Range(chunked_center[c])}

\* C4: the dissimilarity matrix has exactly n_centers rows (n_centers =
\* number of centers = number of neighbor sets) and C(n_conditions, 2)
\* columns, n_conditions being the number of distinct condition labels,
\* whatever n_centers is; no shape error arises; and the returned row
\* descriptor voxel_index equals centers_raveled position by position.
C4_MatrixShape ==
    (rdm_pc \in {"loop", "returned", "ValueError"}) =>
        /\ rdm_pc # "ValueError"
        /\ n_centers = Len(neighbors_raveled)
        /\ DOMAIN RDM = 0..(n_centers - 1)
        /\ \A r \in DOMAIN RDM : Len(RDM[r]) = Pairs(Cardinality(Range(events)))
        /\ rdm_pc = "returned" =>
                /\ DOMAIN SL_rdms.dissimilarities = 0..(n_centers - 1)
                /\ \A r \in 0..(n_centers - 1) :
                        Len(SL_rdms.dissimilarities[r])
                            = Pairs(Cardinality(Range(events)))
                /\ Len(SL_rdms.rdm_descriptors.voxel_index) = n_centers
                /\ \A i \in 1..n_centers :
                        SL_rdms.rdm_descriptors.voxel_index[i]
                            = centers_raveled[i]

\* C4 witness: 100 centers and 8 observations of 4 conditions gave a
\* 100 x 6 matrix.
C4_Witness ==
    /\ rdm_pc = "returned"
    /\ n_centers = 100
    /\ Len(events) = 8
    /\ Len(SL_rdms.dissimilarities[99]) = 6
    /\ SL_rdms.rdm_descriptors.voxel_index[100] = 199

\* C8: the index range 0..n_centers-1 is split into a fixed number of
\* batches (num - 1 = 99 for every n_centers) that are contiguous, ascending,
\* pairwise disjoint, cover every index, and differ in size by at most 1;
\* once the loop is over every accumulator row was written exactly once, by
\* the batch that contains it, with the dissimilarities computed from the
\* columns neighbors_raveled[i] of the observation matrix.
C8_ChunksPartition ==
    /\ (rdm_pc = "loop" /\ chunk_i = 1) =>
        LET ch == chunked_center
            C == 1..Len(ch)
        IN  /\ Len(ch) = num - 1
            /\ \A c \in C : \A j \in 1..(Len(ch[c]) - 1) :
                    ch[c][j + 1] = ch[c][j] + 1
            /\ \A c \in C : \A d \in C :
                    (c < d /\ ch[c] # <<>> /\ ch[d] # <<>>)
                        => ch[c][Len(ch[c])] < ch[d][1]
            /\ \A r \in 0..(n_centers - 1) : Cardinality(ChunkOf(r)) = 1
            /\ \A c \in C : Range(ch[c]) \subseteq 0..(n_centers - 1)
            /\ \A c \in C : \A d \in C : Len(ch[c]) - Len(ch[d]) <= 1
    /\ (rdm_pc = "returned") =>
        \A r \in 0..(n_centers - 1) :
            /\ Len(writes[r]) = 1
            /\ writes[r][1] \in ChunkOf(r)
            /\ RDM[r] = [p \in 1..Pairs(Cardinality(Range(events))) |->
                            [from |-> neighbors_raveled[r + 1], pair |-> p]]

\* C8 witness: 108 centers, where batch 55 has one center and batch 56 two
\* (the double 55 * (108 / 99) is just below 60), and the loop is over.
C8_Witness ==
    /\ rdm_pc = "returned"
    /\ n_centers = 108
    /\ chunked_center[55] = <<58>>
    /\ chunked_center[56] = <<59, 60>>
    /\ writes[59] = <<56>>
    /\ Len(RDM[59]) = 6

\* C10 as stated: for n_centers >= 1 every batch handed to calc_rdm holds at
\* least one center.
C10_NoEmptyBatch ==
    (rdm_pc \in {"loop", "returned"} /\ n_centers >= 1 /\ chunk_i > 1) =>
        center_data # <<>>

====
